---------------------------- MODULE Spec2Model ----------------------------
(***************************************************************************)
(* A model of spec_cleaner/rpmpreamble.py: the paragraph / category /      *)
(* group reordering engine of the preamble cleaner (classes RpmPreamble    *)
(* and RpmPackage).                                                        *)
(*                                                                         *)
(* Text.  A line of text is a record [tag, sfx, val]:                      *)
(*   tag  the text the classifying regular expressions look at: the tag    *)
(*        name ("Source", "Requires", ...), "#" for a comment, "%if" for   *)
(*        a conditional directive, "" for an empty line, anything else     *)
(*        for text no expression matches;                                  *)
(*   sfx  what follows the tag name before the colon: the digits of        *)
(*        Source<n>/Patch<n>, the phase of Requires(<phase>), the          *)
(*        language of Summary(<lang>); " " on an empty tag is a line of    *)
(*        white space only;                                                *)
(*   val  the value, a sequence of tokens [n, v]: n a word, v the version  *)
(*        qualifier that follows it ("" when there is none).               *)
(* The run of spaces that _add_line_value_to pads a key with carries no    *)
(* information (the expressions skip white space) and is not modelled.    *)
(* A group is, in the code, a string or a list of strings ending with the  *)
(* line; here it is always a sequence of lines, a bare string being the    *)
(* sequence of length 1 (so the "Unknown type" errors cannot occur).       *)
(***************************************************************************)
EXTENDS Integers, Sequences, FiniteSets, TLC

L(tag, sfx, val) == [tag |-> tag, sfx |-> sfx, val |-> val]
T(n, v) == [n |-> n, v |-> v]
W(n) == <<T(n, "")>>

\* previous_line before any line was recorded (Python's None)
NoLine == L("None", "", <<>>)
\* the empty string
EmptyLine == L("", "", <<>>)
\* key = None of _add_line_value_to
NoKey == [tag |-> "", sfx |-> ""]

(***************************************************************************)
(* Bounds of the model.                                                    *)
(***************************************************************************)
\* how many lines the driver feeds to add before it calls output
MaxLines == 3

(***************************************************************************)
(* The class tables.                                                       *)
(***************************************************************************)
category_to_key ==
  [c \in {"define", "name", "version", "release", "license", "summary", "url",
          "group", "source", "patch", "buildrequires", "prereq", "requires",
          "recommends", "suggests", "supplements", "buildroot", "buildarch",
          "epoch"} |->
     CASE c = "define" -> "%define"
       [] c = "name" -> "Name"
       [] c = "version" -> "Version"
       [] c = "release" -> "Release"
       [] c = "license" -> "License"
       [] c = "summary" -> "Summary"
       [] c = "url" -> "Url"
       [] c = "group" -> "Group"
       [] c = "source" -> "Source"
       [] c = "patch" -> "Patch"
       [] c = "buildrequires" -> "BuildRequires"
       [] c = "prereq" -> "PreReq"
       [] c = "requires" -> "Requires"
       [] c = "recommends" -> "Recommends"
       [] c = "suggests" -> "Suggests"
       [] c = "supplements" -> "Supplements"
       [] c = "buildroot" -> "BuildRoot"
       [] c = "buildarch" -> "BuildArch"
       [] c = "epoch" -> "Epoch"]

categories_order ==
  << "define", "name", "version", "release", "license", "summary",
     "summary_localized", "url", "group", "source", "patch", "buildrequires",
     "requires", "prereq", "requires_phase", "recommends", "suggests",
     "supplements", "provides_obsoletes", "buildroot", "buildarch", "misc" >>

Categories == {categories_order[i] : i \in 1..Len(categories_order)}

categories_with_sorted_package_tokens ==
  {"buildrequires", "prereq", "requires", "recommends", "suggests", "supplements"}

categories_with_sorted_keyword_tokens == {"source", "patch"}

\* __init__: the sorted package categories plus provides_obsoletes
categories_with_package_tokens ==
  categories_with_sorted_package_tokens \cup {"provides_obsoletes"}

\* __init__: the simple matches, category -> the tag its expression accepts
category_to_re ==
  [c \in {"define", "name", "version", "summary", "url", "group",
          "buildrequires", "requires", "recommends", "suggests",
          "supplements", "buildarch"} |->
     CASE c = "define" -> "%define"
       [] c = "name" -> "Name"
       [] c = "version" -> "Version"
       [] c = "summary" -> "Summary"
       [] c = "url" -> "Url"
       [] c = "group" -> "Group"
       [] c = "buildrequires" -> "BuildRequires"
       [] c = "requires" -> "Requires"
       [] c = "recommends" -> "Recommends"
       [] c = "suggests" -> "Suggests"
       [] c = "supplements" -> "Supplements"
       [] c = "buildarch" -> "BuildArch"]

\* __init__: the deprecated matches, whose lines are dropped
category_to_clean == {"Vendor", "AutoReqProv", "Epoch"}

(***************************************************************************)
(* The two conversion tables, read once from the data files.  Their        *)
(* content is input of the engine; the model fixes one small instance.     *)
(***************************************************************************)
\* pkgconfig_conversions.txt: package name -> pkgconfig names
pkgconfig_conversions ==
  [p \in {"libx", "liby"} |-> IF p = "libx" THEN <<"x">> ELSE <<"y2", "y1">>]

\* licenses_changes.txt: known bad license string (its words) -> correct one
license_conversions ==
  [b \in {<<"Foo">>, <<"Bar">>, <<"Bar", "or", "later">>} |->
     CASE b = <<"Foo">> -> <<"Foo-1.0">>
       [] b = <<"Bar">> -> <<"Bar-2.0">>
       [] OTHER -> <<"Bar-2.0+">>]

(***************************************************************************)
(* The synthetic lines of add.                                             *)
(***************************************************************************)
PatchMissingTag == L("#", "", W("PATCH-MISSING-TAG"))
FixmeComment == L("#", "", W("FIXME"))
BuildRootValue == W("%{_tmppath}/%{name}-%{version}-build")

Pkgconfig(j) == "pkgconfig(" \o j \o ")"

(***************************************************************************)
(* The order of Python's string comparison on the words that reach a sort, *)
(* in ASCII order.  A word missing here makes the comparison fail.         *)
(***************************************************************************)
Collation ==
  << "", "(post)", "(pre)", "0", "1", "= %{version}", ">= 2", "BuildRequires", "PreReq",
     "Recommends", "Requires", "Suggests", "Supplements", "a", "libx", "liby",
     "pkgconfig(x)", "pkgconfig(y1)", "pkgconfig(y2)", "zlib" >>

Rank(w) == CHOOSE i \in 1..Len(Collation) : Collation[i] = w

RECURSIVE WordsLess(_, _)
\* a < b for two texts given as their words
WordsLess(a, b) ==
  IF b = <<>> THEN FALSE
  ELSE IF a = <<>> THEN TRUE
  ELSE IF Head(a) = Head(b) THEN WordsLess(Tail(a), Tail(b))
  ELSE Rank(Head(a)) < Rank(Head(b))

RECURSIVE ValWords(_)
ValWords(val) ==
  IF val = <<>> THEN <<>> ELSE <<Head(val).n, Head(val).v>> \o ValWords(Tail(val))

\* the text of a line, as the words a comparison goes through
LineWords(line) == <<line.tag, line.sfx>> \o ValWords(line.val)

(***************************************************************************)
(* The regular expressions of self.reg (rpmregexp, not part of the         *)
(* sources): which lines each accepts.  Source/Patch capture the digits,   *)
(* Requires(...) the phase, Summary(...) the language, all in sfx.         *)
(***************************************************************************)
Matches(re, line) ==
  CASE re = "re_if" -> line.tag = "%if"
    [] re = "re_comment" -> line.tag = "#"
    [] re = "re_source" -> line.tag = "Source"
    [] re = "re_patch" -> line.tag = "Patch"
    [] re = "re_prereq" -> line.tag = "PreReq"
    [] re = "re_requires_phase" -> line.tag = "Requires" /\ line.sfx # ""
    [] re = "re_provides" -> line.tag = "Provides"
    [] re = "re_obsoletes" -> line.tag = "Obsoletes"
    [] re = "re_buildroot" -> line.tag = "BuildRoot"
    [] re = "re_license" -> line.tag = "License"
    [] re = "re_release" -> line.tag = "Release"
    [] re = "re_summary_localized" -> line.tag = "Summary" /\ line.sfx # ""
    [] re = "re_requires_token" -> line.val # <<>>
    [] OTHER -> line.tag = re /\ line.sfx = ""

\* int() of the digits of a numbered tag; -1 stands for the ValueError of int('')
IntOf(digits) ==
  CASE digits = "0" -> 0
    [] digits = "1" -> 1
    [] digits = "2" -> 2
    [] OTHER -> -1

\* Section._complete_cleanup: superfluous white space goes
CompleteCleanup(line) == IF line.tag = "" THEN EmptyLine ELSE line

(***************************************************************************)
(* _sort_helper_key.  A key is an integer or a string; Python 2 orders     *)
(* every integer before every string.                                      *)
(***************************************************************************)
IsPkgconfigWord(w) ==
  \E p \in DOMAIN pkgconfig_conversions :
    \E i \in 1..Len(pkgconfig_conversions[p]) : w = Pkgconfig(pkgconfig_conversions[p][i])

\* key.find('pkgconfig(') != -1
HasPkgconfig(line) == \E i \in 1..Len(line.val) : IsPkgconfigWord(line.val[i].n)

IntKey(n) == [kind |-> IF n < 0 THEN "ValueError" ELSE "int", num |-> n, text |-> <<>>]
StrKey(d, line) == [kind |-> "str", num |-> 0, text |-> <<d>> \o LineWords(line)]

SortHelperKeySourceDefault(digits) == IF digits = "" THEN "0" ELSE digits

\* the pkgconfig() lines get the same prefix as the others
SortHelperKeyOnePrefix(a) ==
  LET key == a[Len(a)] IN
    IF Matches("re_patch", key) THEN IntKey(IntOf(key.sfx))
    ELSE IF Matches("re_source", key) THEN IntKey(IntOf(SortHelperKeySourceDefault(key.sfx)))
    ELSE StrKey("0", key)

SortHelperKey(a) ==
  LET key == a[Len(a)] IN
    IF Matches("re_patch", key) THEN IntKey(IntOf(key.sfx))
    ELSE IF Matches("re_source", key) THEN IntKey(IntOf(SortHelperKeySourceDefault(key.sfx)))
    ELSE IF HasPkgconfig(key) THEN StrKey("1", key)
    ELSE StrKey("0", key)

\* k1 < k2 as Python 2 compares the keys
KeyLess(k1, k2) ==
  CASE k1.kind = "int" /\ k2.kind = "int" -> k1.num < k2.num
    [] k1.kind = "int" /\ k2.kind = "str" -> TRUE
    [] k1.kind = "str" /\ k2.kind = "str" -> WordsLess(k1.text, k2.text)
    [] OTHER -> FALSE

RECURSIVE SortInsertBeforeEqual(_, _)
\* g goes before the groups of equal key: a sort that is not stable
SortInsertBeforeEqual(s, g) ==
  IF s = <<>> THEN <<g>>
  ELSE IF ~KeyLess(SortHelperKey(Head(s)), SortHelperKey(g)) THEN <<g>> \o s
  ELSE <<Head(s)>> \o SortInsertBeforeEqual(Tail(s), g)

RECURSIVE SortInsert(_, _)
\* g into the sorted s, after every group whose key is not greater
SortInsert(s, g) ==
  IF s = <<>> THEN <<g>>
  ELSE IF KeyLess(SortHelperKey(g), SortHelperKey(Head(s))) THEN <<g>> \o s
  ELSE <<Head(s)>> \o SortInsert(Tail(s), g)

RECURSIVE ListSort(_)
\* list.sort(key=self._sort_helper_key): ascending and stable
ListSort(s) ==
  IF s = <<>> THEN <<>>
  ELSE SortInsert(ListSort(SubSeq(s, 1, Len(s) - 1)), s[Len(s)])

\* a key of the list raises in int()
SortRaises(s) == \E i \in 1..Len(s) : SortHelperKey(s[i]).kind = "ValueError"

(***************************************************************************)
(* The engine.  Its state is the record                                    *)
(*   paragraph      category -> list of groups                             *)
(*   current_group  the lines waiting for the next committed line          *)
(*   previous_line  the line recorded last (NoLine: none yet)              *)
(*   lines          Section.lines, the lines handed to the line sink       *)
(*   raised         the exception that ended the run ("": none)            *)
(* and every method is an operator from state to state.                    *)
(***************************************************************************)
Raise(s, exception) == [s EXCEPT !.raised = exception]

StartParagraph(s) ==
  [s EXCEPT !.paragraph = [c \in Categories |-> <<>>], !.current_group = <<>>]

\* Section.add (rpmsection, not part of the sources): the line goes to the
\* sink as it is and becomes the previous line
SectionAdd(s, line) ==
  [s EXCEPT !.lines = Append(@, line), !.previous_line = line]

\* Section.output (rpmsection, not part of the sources): the lines of the
\* sink are written out; the model counts the calls
SectionOutput(s) == [s EXCEPT !.finalized = @ + 1]

RECURSIVE AddGroup(_, _)
AddGroup(s, group) ==
  IF group = <<>> THEN s ELSE AddGroup(SectionAdd(s, Head(group)), Tail(group))

RECURSIVE AddGroups(_, _)
\* for group in self.paragraph[i]: self._add_group(group)
AddGroups(s, groups) ==
  IF groups = <<>> THEN s ELSE AddGroups(AddGroup(s, Head(groups)), Tail(groups))

\* the groups of category c in the order _end_paragraph emits them
EmitOrder(c, groups) ==
  IF c \in categories_with_sorted_package_tokens \cup categories_with_sorted_keyword_tokens
  THEN ListSort(groups)
  ELSE groups

RECURSIVE EmitCategoriesBackwards(_, _)
\* a loop that walks categories_order from its end
EmitCategoriesBackwards(s, i) ==
  IF i > Len(categories_order) THEN s
  ELSE LET c == categories_order[Len(categories_order) + 1 - i] IN
         EmitCategoriesBackwards(AddGroups(s, EmitOrder(c, s.paragraph[c])), i + 1)

RECURSIVE EmitCategories(_, _)
\* the loop of _end_paragraph from category number i on
EmitCategories(s, i) ==
  IF i > Len(categories_order) THEN s
  ELSE LET c == categories_order[i] IN
         IF /\ c \in categories_with_sorted_package_tokens
                     \cup categories_with_sorted_keyword_tokens
            /\ SortRaises(s.paragraph[c])
         THEN Raise(s, "ValueError")
         ELSE EmitCategories(AddGroups(s, EmitOrder(c, s.paragraph[c])), i + 1)

\* the categories and the pending group are not emptied after emission
EndParagraphKeeping(s) ==
  LET t == EmitCategories(s, 1) IN
    IF t.raised # "" THEN t
    ELSE IF t.current_group # <<>> THEN AddGroup(t, t.current_group) ELSE t

EndParagraph(s) ==
  LET t == EmitCategories(s, 1) IN
    IF t.raised # "" THEN t
    ELSE StartParagraph(IF t.current_group # <<>> THEN AddGroup(t, t.current_group) ELSE t)

(***************************************************************************)
(* _fix_license.  The value is its words; "(", ")", "and" and "or" are     *)
(* the separators re.split cuts at and keeps.                              *)
(***************************************************************************)
LicenseSeparators == {"(", ")", "and", "or"}

\* str.replace of the deprecated suffixes ORlater and ORsim, on one word
ReplaceSuffix(w) ==
  CASE w = "FooORlater" -> <<"Foo", "or", "later">>
    [] w = "BarORlater" -> <<"Bar", "or", "later">>
    [] w = "BarORsim" -> <<"Bar", "or", "similar">>
    [] OTHER -> <<w>>

RECURSIVE LicenseSplit(_, _)
\* re.split with the empty strings filtered out; cur is the piece being read
LicenseSplit(ws, cur) ==
  LET done == IF cur = <<>> THEN <<>> ELSE <<cur>> IN
    IF ws = <<>> THEN done
    ELSE IF Head(ws).n \in LicenseSeparators
         THEN done \o << <<Head(ws).n>> >> \o LicenseSplit(Tail(ws), <<>>)
         ELSE LicenseSplit(Tail(ws), Append(cur, Head(ws).n))

RECURSIVE ReplaceSuffixes(_)
ReplaceSuffixes(piece) ==
  IF piece = <<>> THEN <<>> ELSE ReplaceSuffix(Head(piece)) \o ReplaceSuffixes(Tail(piece))

\* the suffixes are spelled out and the table is not looked at
FixLicensePieceSuffixOnly(piece) == ReplaceSuffixes(piece)

\* the body of the loop: suffixes spelled out, then the table
FixLicensePiece(piece) ==
  LET license == ReplaceSuffixes(piece) IN
    IF license \in DOMAIN license_conversions THEN license_conversions[license]
    ELSE license

RECURSIVE LicenseJoin(_)
LicenseJoin(pieces) ==
  IF pieces = <<>> THEN <<>>
  ELSE [i \in 1..Len(Head(pieces)) |-> T(Head(pieces)[i], "")] \o LicenseJoin(Tail(pieces))

FixLicense(value) ==
  LET licenses == LicenseSplit(value, <<>>) IN
    LicenseJoin([i \in 1..Len(licenses) |-> FixLicensePiece(licenses[i])])

(***************************************************************************)
(* _pkgname_to_pkgconfig and _fix_list_of_packages, on tokens.             *)
(***************************************************************************)
\* token.replace of the version-release form and the spacing of the operator
NormalizeToken(token) ==
  T(token.n, CASE token.v = "= %{version}-%{release}" -> "= %{version}"
               [] token.v = "=%{version}" -> "= %{version}"
               [] token.v = ">=2" -> ">= 2"
               [] OTHER -> token.v)

\* the version of the token is not carried over
PkgnameToPkgconfigUnversioned(value) ==
  IF value.n \notin DOMAIN pkgconfig_conversions THEN <<value>>
  ELSE [j \in 1..Len(pkgconfig_conversions[value.n]) |->
          T(Pkgconfig(pkgconfig_conversions[value.n][j]), "")]

\* version is the token with the package name taken out: its qualifier (no
\* qualifier of the model contains a package name)
PkgnameToPkgconfig(value) ==
  LET pkgname == value.n
      version == value.v
  IN IF pkgname \notin DOMAIN pkgconfig_conversions THEN <<value>>
     ELSE LET pkgconf_list == pkgconfig_conversions[pkgname] IN
            [j \in 1..Len(pkgconf_list) |-> T(Pkgconfig(pkgconf_list[j]), version)]

RECURSIVE Expand(_)
Expand(tokens) ==
  IF tokens = <<>> THEN <<>>
  ELSE PkgnameToPkgconfig(NormalizeToken(Head(tokens))) \o Expand(Tail(tokens))

RECURSIVE TokenInsert(_, _)
TokenInsert(s, t) ==
  IF s = <<>> THEN <<t>>
  ELSE IF WordsLess(<<t.n, t.v>>, <<Head(s).n, Head(s).v>>) THEN <<t>> \o s
  ELSE <<Head(s)>> \o TokenInsert(Tail(s), t)

RECURSIVE TokenSort(_)
\* expanded.sort(): plain string order
TokenSort(s) ==
  IF s = <<>> THEN <<>>
  ELSE TokenInsert(TokenSort(SubSeq(s, 1, Len(s) - 1)), s[Len(s)])

\* the list of values, one per token; the value itself when no token is found
FixListOfPackages(value) ==
  IF Matches("re_requires_token", L("", "", value))
  THEN LET expanded == TokenSort(Expand(value)) IN
         [i \in 1..Len(expanded) |-> <<expanded[i]>>]
  ELSE <<value>>

(***************************************************************************)
(* _add_line_to and _add_line_value_to.                                    *)
(***************************************************************************)
\* the line is committed alone and the waiting lines keep waiting
AddLineToDetached(s, category, line) ==
  [s EXCEPT !.paragraph[category] = Append(@, <<line>>), !.previous_line = line]

\* self.paragraph[category] of a category _start_paragraph did not make fails
AddLineTo(s, category, line) ==
  IF category \notin DOMAIN s.paragraph THEN Raise(s, "KeyError")
  ELSE IF s.current_group # <<>>
  THEN [s EXCEPT !.paragraph[category] = Append(@, Append(s.current_group, line)),
                 !.current_group = <<>>,
                 !.previous_line = line]
  ELSE [s EXCEPT !.paragraph[category] = Append(@, <<line>>),
                 !.previous_line = line]

RECURSIVE AddLines(_, _, _, _)
\* for value in values: self._add_line_to(category, key + value)
AddLines(s, category, key, values) ==
  IF values = <<>> THEN s
  ELSE AddLines(AddLineTo(s, category, L(key.tag, key.sfx, Head(values))),
                category, key, Tail(values))

AddLineValueTo(s, category, value, key) ==
  LET values == IF category \in categories_with_package_tokens
                THEN FixListOfPackages(value)
                ELSE <<value>>
  IN IF key # NoKey THEN AddLines(s, category, key, values)
     ELSE IF category \in DOMAIN category_to_key
     THEN AddLines(s, category, [tag |-> category_to_key[category], sfx |-> ""], values)
     ELSE Raise(s, "RpmException")

(***************************************************************************)
(* RpmPreamble.add, one operator per branch.                               *)
(***************************************************************************)
\* what the object has as attributes: the class tables, what __init__ and
\* Section.__init__ set, and the methods.  The expressions live in self.reg.
SelfAttributes ==
  {"category_to_key", "categories_order", "categories_with_sorted_package_tokens",
   "categories_with_sorted_keyword_tokens", "license_conversions",
   "pkgconfig_conversions", "categories_with_package_tokens", "category_to_re",
   "category_to_clean", "paragraph", "current_group", "previous_line", "lines",
   "reg"}

\* the directive opens the next paragraph instead of closing this one
AddIfAtBeginning(s, line) ==
  LET t == EndParagraph(s) IN
    IF t.raised # "" THEN t
    ELSE [t EXCEPT !.current_group = <<line>>, !.previous_line = line]

\* the sink is written out at every closure
AddIfFinalizing(s, line) ==
  LET t == EndParagraph([s EXCEPT !.current_group = Append(@, line)]) IN
    IF t.raised # "" THEN t ELSE SectionOutput([t EXCEPT !.previous_line = line])

AddIf(s, line) ==
  LET t == EndParagraph([s EXCEPT !.current_group = Append(@, line)]) IN
    IF t.raised # "" THEN t ELSE [t EXCEPT !.previous_line = line]

AddComment(s, line) ==
  [s EXCEPT !.current_group = Append(@, line), !.previous_line = line]

AddSource(s, line) ==
  AddLineValueTo(s, "source", line.val, [tag |-> "Source", sfx |-> line.sfx])

\* no warning comment is injected
AddPatchUntagged(s, line) ==
  LET zero == IF line.sfx = "" THEN "0" ELSE ""
  IN AddLineValueTo(s, "patch", line.val, [tag |-> "Patch", sfx |-> zero \o line.sfx])

\* Patch: stays Patch:
AddPatchUnnumbered(s, line) ==
  LET t == IF s.previous_line = NoLine \/ s.previous_line = EmptyLine
              \/ ~Matches("re_comment", s.previous_line)
           THEN [s EXCEPT !.current_group = Append(@, PatchMissingTag),
                          !.previous_line = line]
           ELSE s
  IN AddLineValueTo(t, "patch", line.val, [tag |-> "Patch", sfx |-> line.sfx])

AddPatch(s, line) ==
  LET t == IF s.previous_line = NoLine \/ s.previous_line = EmptyLine
              \/ ~Matches("re_comment", s.previous_line)
           THEN [s EXCEPT !.current_group = Append(@, PatchMissingTag),
                          !.previous_line = line]
           ELSE s
      zero == IF line.sfx = "" THEN "0" ELSE ""
  IN AddLineValueTo(t, "patch", line.val, [tag |-> "Patch", sfx |-> zero \o line.sfx])

\* no comment is appended
AddPrereqSilent(s, line) == AddLineValueTo(s, "prereq", line.val, NoKey)

AddPrereq(s, line) ==
  AddLineValueTo([s EXCEPT !.current_group = Append(@, FixmeComment)],
                 "prereq", line.val, NoKey)

\* the line goes to the category named after it
AddRequiresPhaseApart(s, line) ==
  AddLineValueTo(s, "requires_phase", line.val, [tag |-> "Requires", sfx |-> line.sfx])

AddRequiresPhase(s, line) ==
  AddLineValueTo(s, "prereq", line.val, [tag |-> "Requires", sfx |-> line.sfx])

\* self.re_provides, not self.reg.re_provides
AddProvides(s, line) ==
  IF "re_provides" \notin SelfAttributes THEN Raise(s, "AttributeError")
  ELSE AddLineValueTo(s, "provides_obsoletes", line.val, [tag |-> "Provides", sfx |-> ""])

\* self.re_obsoletes, not self.reg.re_obsoletes
AddObsoletes(s, line) ==
  IF "re_obsoletes" \notin SelfAttributes THEN Raise(s, "AttributeError")
  ELSE AddLineValueTo(s, "provides_obsoletes", line.val, [tag |-> "Obsoletes", sfx |-> ""])

\* every build-root line is committed
AddBuildrootAlways(s, line) == AddLineValueTo(s, "buildroot", BuildRootValue, NoKey)

\* a repeated build-root line takes the waiting comments with it
AddBuildrootDiscarding(s, line) ==
  IF Len(s.paragraph["buildroot"]) = 0
  THEN AddLineValueTo(s, "buildroot", BuildRootValue, NoKey)
  ELSE [s EXCEPT !.current_group = <<>>]

AddBuildroot(s, line) ==
  IF Len(s.paragraph["buildroot"]) = 0
  THEN AddLineValueTo(s, "buildroot", BuildRootValue, NoKey)
  ELSE s

AddLicense(s, line) == AddLineValueTo(s, "license", FixLicense(line.val), NoKey)

\* the line goes to a category that has a key and no place in the order
AddReleaseAsEpoch(s, line) == AddLineValueTo(s, "epoch", W("0"), NoKey)

AddRelease(s, line) == AddLineValueTo(s, "release", W("0"), NoKey)

AddSummaryLocalized(s, line) ==
  AddLineValueTo(s, "summary_localized", line.val, [tag |-> "Summary", sfx |-> line.sfx])

\* a line no expression matches is dropped
AddOtherDropping(s, line) ==
  IF \E re \in category_to_clean : Matches(re, line) THEN s
  ELSE IF \E c \in DOMAIN category_to_re : Matches(category_to_re[c], line)
       THEN LET category == CHOOSE c \in DOMAIN category_to_re :
                              Matches(category_to_re[c], line)
            IN AddLineValueTo(s, category, line.val, NoKey)
       ELSE s

\* the else branch: the deprecated matches, the simple matches, then misc
AddOther(s, line) ==
  IF \E re \in category_to_clean : Matches(re, line) THEN s
  ELSE IF \E c \in DOMAIN category_to_re : Matches(category_to_re[c], line)
       THEN LET category == CHOOSE c \in DOMAIN category_to_re :
                              Matches(category_to_re[c], line)
            IN AddLineValueTo(s, category, line.val, NoKey)
       ELSE AddLineTo(s, "misc", line)

RpmPreambleAdd(s, raw) ==
  LET line == CompleteCleanup(raw) IN
    CASE line = EmptyLine -> s
      [] Matches("re_if", line) -> AddIf(s, line)
      [] Matches("re_comment", line) -> AddComment(s, line)
      [] Matches("re_source", line) -> AddSource(s, line)
      [] Matches("re_patch", line) -> AddPatch(s, line)
      [] Matches("re_prereq", line) -> AddPrereq(s, line)
      [] Matches("re_requires_phase", line) -> AddRequiresPhase(s, line)
      [] Matches("re_provides", line) -> AddProvides(s, line)
      [] Matches("re_obsoletes", line) -> AddObsoletes(s, line)
      [] Matches("re_buildroot", line) -> AddBuildroot(s, line)
      [] Matches("re_license", line) -> AddLicense(s, line)
      [] Matches("re_release", line) -> AddRelease(s, line)
      [] Matches("re_summary_localized", line) -> AddSummaryLocalized(s, line)
      [] OTHER -> AddOther(s, line)

\* RpmPreamble.output: the paragraph is closed and an empty line appended
RpmPreambleOutput(s) ==
  LET t == EndParagraph(s) IN
    IF t.raised # "" THEN t ELSE SectionOutput([t EXCEPT !.lines = Append(@, EmptyLine)])

\* the first line is dispatched like every other
RpmPackageAddDispatching(s, raw) == RpmPreambleAdd(s, raw)

\* RpmPackage.add
RpmPackageAdd(s, raw) ==
  IF s.previous_line = NoLine THEN SectionAdd(s, raw) ELSE RpmPreambleAdd(s, raw)

\* the object after __init__
NewEngine ==
  StartParagraph([paragraph |-> <<>>, current_group |-> <<>>,
                  previous_line |-> NoLine, lines |-> <<>>, raised |-> "",
                  finalized |-> 0])

(***************************************************************************)
(* The lines the driver may feed.                                          *)
(***************************************************************************)
InputLines ==
  { EmptyLine,
    L("", " ", <<>>),
    L("%if", "", W("0%{?suse_version}")),
    L("#", "", W("c")),
    L("Source", "", W("s")), L("Source", "0", W("s")), L("Source", "1", W("s")),
    L("Patch", "", W("p")), L("Patch", "1", W("p")),
    L("PreReq", "", <<T("zlib", ""), T("a", "")>>),
    L("Requires", "(pre)", W("a")),
    L("Provides", "", W("a")),
    L("Obsoletes", "", W("a")),
    L("BuildRoot", "", W("/var/tmp/build")),
    L("License", "", W("BarORlater")),
    L("License", "", <<T("FooORlater", ""), T("and", ""), T("(", ""), T("BarORsim", ""),
                       T(")", "")>>),
    L("Release", "", W("1")),
    L("Summary", "(de)", W("x")),
    L("Vendor", "", W("v")),
    L("Name", "", W("n")),
    L("Requires", "", <<T("zlib", ""), T("liby", ">=2")>>),
    L("Requires", "", W("a")),
    L("%description", "", <<>>),
    L("ExclusiveArch", "", W("x")) }

\* the line that opens a sub-package section: the driver makes an RpmPackage
\* when it meets this line and hands it over first
PackageLine == L("%package", "", W("n"))

(***************************************************************************)
(* The state machine: one object, RpmPreamble or RpmPackage, fed lines by  *)
(* the driver and then told to output.                                     *)
(***************************************************************************)
VARIABLES paragraph, current_group, previous_line, lines, raised, finalized,
          variant, phase, input

vars ==
  <<paragraph, current_group, previous_line, lines, raised, finalized, variant, phase, input>>

Self ==
  [paragraph |-> paragraph, current_group |-> current_group,
   previous_line |-> previous_line, lines |-> lines, raised |-> raised,
   finalized |-> finalized]

Becomes(t) ==
  /\ paragraph' = t.paragraph
  /\ current_group' = t.current_group
  /\ previous_line' = t.previous_line
  /\ lines' = t.lines
  /\ raised' = t.raised
  /\ finalized' = t.finalized

Init ==
  /\ paragraph = NewEngine.paragraph
  /\ current_group = NewEngine.current_group
  /\ previous_line = NewEngine.previous_line
  /\ lines = NewEngine.lines
  /\ raised = NewEngine.raised
  /\ finalized = NewEngine.finalized
  /\ variant \in {"preamble", "package"}
  /\ phase = "add"
  /\ input = <<>>

Add(line) ==
  /\ variant = "preamble" /\ phase = "add" /\ raised = ""
  /\ Len(input) < MaxLines
  /\ Becomes(RpmPreambleAdd(Self, line))
  /\ input' = Append(input, line)
  /\ UNCHANGED <<variant, phase>>

AddPackage(line) ==
  /\ variant = "package" /\ phase = "add" /\ raised = ""
  /\ Len(input) < MaxLines
  /\ IF previous_line = NoLine THEN line = PackageLine ELSE line \in InputLines
  /\ Becomes(RpmPackageAdd(Self, line))
  /\ input' = Append(input, line)
  /\ UNCHANGED <<variant, phase>>

Output ==
  /\ phase = "add" /\ raised = ""
  /\ Becomes(RpmPreambleOutput(Self))
  /\ phase' = "done"
  /\ UNCHANGED <<variant, input>>

Next ==
  \/ \E line \in InputLines : Add(line)
  \/ \E line \in InputLines \cup {PackageLine} : AddPackage(line)
  \/ Output

Spec == Init /\ [][Next]_vars

(***************************************************************************)
(* A whole run as a function: a fresh RpmPreamble is fed the lines in      *)
(* order and then told to output.                                          *)
(***************************************************************************)
RECURSIVE Feed(_, _)
Feed(s, ls) ==
  IF ls = <<>> \/ s.raised # "" THEN s ELSE Feed(RpmPreambleAdd(s, Head(ls)), Tail(ls))

Run(ls) ==
  LET t == Feed(NewEngine, ls) IN IF t.raised # "" THEN t ELSE RpmPreambleOutput(t)

(***************************************************************************)
(* Vocabulary of the properties.                                           *)
(***************************************************************************)
IsBlank(line) == CompleteCleanup(line) = EmptyLine
IsDirective(line) == Matches("re_if", line)
IsComment(line) == Matches("re_comment", line)
\* not blank, not a comment, not a conditional directive
IsSubstantive(line) == ~IsBlank(line) /\ ~IsDirective(line) /\ ~IsComment(line)

\* the position, in the canonical order, of the category add commits the
\* line to; 0 when it commits none (a comment, a dropped line, an exception)
CategoryRank(line) ==
  IF ~IsSubstantive(line) THEN 0
  ELSE LET p == RpmPreambleAdd(NewEngine, line).paragraph IN
         IF \A c \in Categories : p[c] = <<>> THEN 0
         ELSE CHOOSE i \in 1..Len(categories_order) : p[categories_order[i]] # <<>>

\* every line of text a run can hold: what the driver feeds and what add
\* makes of it
KnownLines ==
  InputLines \cup {PackageLine, PatchMissingTag, FixmeComment}
    \cup UNION {{Run(<<line>>).lines[i] : i \in 1..Len(Run(<<line>>).lines)} :
                  line \in InputLines}

\* CategoryRank, tabulated
RankOfLine == [line \in KnownLines |-> CategoryRank(line)]

\* the category ranks of a sequence of lines
Ranks(ls) == [i \in 1..Len(ls) |-> RankOfLine[ls[i]]]

\* the lines a step hands to the line sink
Emitted == SubSeq(lines', Len(lines) + 1, Len(lines'))

\* the step is a call of RpmPreamble.add (directly or through RpmPackage.add)
\* with the line it names
Dispatched(line) ==
  /\ input' = Append(input, line)
  /\ variant = "package" => previous_line # NoLine

Closing == (\E line \in InputLines : IsDirective(line) /\ Dispatched(line)) \/ phase' # phase

(***************************************************************************)
(* C1.  Idempotence: the lines one run emits, fed to a fresh engine, are   *)
(* emitted again unchanged.                                                *)
(***************************************************************************)
C1_Idempotence ==
  (variant = "preamble" /\ phase = "done" /\ raised = "")
    => (Run(lines).raised = "" /\ Run(lines).lines = lines)

(***************************************************************************)
(* C2.  Category ordering.  As claimed: over the whole output the category *)
(* rank of the substantive lines never decreases.                          *)
(***************************************************************************)
C2_RankNonDecreasingWholeOutput ==
  variant = "preamble" =>
    LET rank == Ranks(lines) IN
      \A i, j \in 1..Len(lines) :
        (i < j /\ rank[i] > 0 /\ rank[j] > 0) => rank[i] <= rank[j]

\* C2 as amended: the category rank of the substantive lines never decreases
\* within a paragraph, that is between two lines of the output with no
\* conditional directive between them (the first line of a sub-package block,
\* which no paragraph emits, set aside).
C2_RankNonDecreasingPerParagraph ==
  LET rank == Ranks(lines) IN
    \A i, j \in 1..Len(lines) :
      ( /\ i < j /\ rank[i] > 0 /\ rank[j] > 0
        /\ \A k \in i..j : ~IsDirective(lines[k])
        /\ variant = "package" => i > 1 )
        => rank[i] <= rank[j]

\* a closed paragraph, after a directive, in which the engine moved a line up
C2_Witness ==
  /\ variant = "preamble" /\ phase = "done" /\ Len(input) = 3 /\ Len(lines) = 4
  /\ IsDirective(input[1])
  /\ LET in == Ranks(input)
         out == Ranks(lines)
     IN /\ in[3] > 0 /\ in[3] < in[2]
        /\ out[2] > 0 /\ out[2] < out[3]

\* the substantive lines add makes of an input line on its own
Produced ==
  [line \in InputLines |->
     LET out == Run(<<line>>).lines IN
       {out[i] : i \in {k \in 1..Len(out) : IsSubstantive(out[k])}}]

\* the groups a step appends to category c
NewGroups(c) == SubSeq(paragraph'[c], Len(paragraph[c]) + 1, Len(paragraph'[c]))

\* g is a run of consecutive lines of ls
Contiguous(g, ls) == \E k \in 0..(Len(ls) - Len(g)) : SubSeq(ls, k + 1, k + Len(g)) = g

\* how many times x occurs in ls
Count(x, ls) == Cardinality({i \in 1..Len(ls) : ls[i] = x})

RECURSIVE Flatten(_)
\* the lines of a list of groups
Flatten(groups) == IF groups = <<>> THEN <<>> ELSE Head(groups) \o Flatten(Tail(groups))

RECURSIVE HeldFrom(_)
\* every line the paragraph holds in a category, from category number i on
HeldFrom(i) ==
  IF i > Len(categories_order) THEN <<>>
  ELSE Flatten(paragraph[categories_order[i]]) \o HeldFrom(i + 1)

(***************************************************************************)
(* C3.  Comment attachment.  As claimed: a comment right before a          *)
(* substantive line of the input is, in the output, right before the line  *)
(* made of that substantive line.                                          *)
(***************************************************************************)
C3_CommentImmediatelyBeforeLine ==
  (variant = "preamble" /\ phase = "done" /\ raised = "") =>
    \A i \in 1..(Len(input) - 1) :
      (IsComment(input[i]) /\ IsSubstantive(input[i + 1]) /\ Produced[input[i + 1]] # {})
        => \E k \in 1..(Len(lines) - 1) :
             lines[k] = input[i] /\ lines[k + 1] \in Produced[input[i + 1]]

\* C3 as amended: when add commits a substantive line while a comment it
\* buffered right before is waiting, the first group committed holds the
\* waiting lines, then only synthetic comments of add, then the line; a
\* line that commits nothing leaves the comment waiting; and a closure emits
\* the lines of every group one after the other.
C3_CommentStaysInGroup ==
  [][ /\ \A line \in InputLines :
           ( /\ Dispatched(line) /\ IsSubstantive(line)
             /\ current_group # <<>> /\ input # <<>>
             /\ current_group[Len(current_group)] = input[Len(input)]
             /\ IsComment(input[Len(input)]) )
           => IF \A c \in Categories : NewGroups(c) = <<>>
              THEN current_group' = current_group
              ELSE \E c \in Categories :
                     /\ NewGroups(c) # <<>>
                     /\ LET g == NewGroups(c)[1]
                            n == Len(current_group)
                        IN /\ Len(g) > n
                           /\ SubSeq(g, 1, n) = current_group
                           /\ \A k \in (n + 1)..(Len(g) - 1) :
                                g[k] \in {FixmeComment, PatchMissingTag}
                           /\ IsSubstantive(g[Len(g)])
      /\ Closing =>
           \A c \in Categories : \A i \in 1..Len(paragraph[c]) :
             Contiguous(paragraph[c][i], Emitted)
    ]_vars

\* the comment went up with its line, which add moved before an earlier one
C3_Witness ==
  /\ variant = "preamble" /\ phase = "done" /\ Len(input) = 3
  /\ IsComment(input[2]) /\ IsSubstantive(input[3])
  /\ Ranks(input)[3] > 0 /\ Ranks(input)[3] < Ranks(input)[1]
  /\ lines[1] = input[2] /\ lines[2] \in Produced[input[3]]

(***************************************************************************)
(* C4.  Conditional boundary: a directive is never held in a category; the *)
(* step that adds it emits everything the paragraph holds, then the        *)
(* waiting lines, then the directive itself as the last line, after what   *)
(* was emitted before, and leaves the paragraph empty.                     *)
(***************************************************************************)
C4_DirectiveClosesParagraph ==
  [][ /\ \A c \in Categories : \A i \in 1..Len(paragraph'[c]) :
           \A k \in 1..Len(paragraph'[c][i]) : ~IsDirective(paragraph'[c][i][k])
      /\ \A line \in InputLines :
           (Dispatched(line) /\ IsDirective(line)) =>
             LET held == HeldFrom(1) \o current_group \o <<line>> IN
               /\ SubSeq(lines', 1, Len(lines)) = lines
               /\ Len(Emitted) = Len(held)
               /\ \A i \in 1..Len(held) : Count(held[i], Emitted) = Count(held[i], held)
               /\ Emitted[Len(Emitted)] = line
               /\ \A c \in Categories : paragraph'[c] = <<>>
               /\ current_group' = <<>>
    ]_vars

\* a directive closed a paragraph whose two lines add had put in order
C4_Witness ==
  /\ variant = "preamble" /\ phase = "add" /\ raised = "" /\ Len(input) = 3
  /\ IsDirective(input[3]) /\ Len(lines) = 3 /\ lines[3] = input[3]
  /\ Ranks(input)[2] > 0 /\ Ranks(input)[2] < Ranks(input)[1]
  /\ Ranks(lines)[1] > 0 /\ Ranks(lines)[1] < Ranks(lines)[2]
  /\ \A c \in Categories : paragraph[c] = <<>>

(***************************************************************************)
(* C5.  A Provides or Obsoletes line handed to add is committed to the     *)
(* provides_obsoletes category under its own key, and add does not fail.   *)
(***************************************************************************)
C5_ProvidesObsoletesCommitted ==
  ( /\ phase = "add" /\ input # <<>>
    /\ variant = "package" => Len(input) > 1
    /\ input[Len(input)].tag \in {"Provides", "Obsoletes"} )
    => /\ raised = ""
       /\ paragraph["provides_obsoletes"] # <<>>
       /\ LET g == paragraph["provides_obsoletes"][Len(paragraph["provides_obsoletes"])]
          IN g[Len(g)].tag = input[Len(input)].tag

(***************************************************************************)
(* C6.  As claimed: every group committed from a PreReq line or from a     *)
(* Requires(phase) line has the FIXME comment among its attachments.       *)
(***************************************************************************)
C6_FixmeOnPrereqAndPhase ==
  [][ \A line \in InputLines :
        ( /\ Dispatched(line)
          /\ Matches("re_prereq", line) \/ Matches("re_requires_phase", line) )
        => /\ NewGroups("prereq") # <<>>
           /\ \A i \in 1..Len(NewGroups("prereq")) :
                \E k \in 1..(Len(NewGroups("prereq")[i]) - 1) :
                  NewGroups("prereq")[i][k] = FixmeComment
    ]_vars

\* C6 as amended: the first group committed from a PreReq line is the
\* waiting lines, the FIXME comment and the line, and the further tokens of
\* that line are committed bare; a Requires(phase) line is committed with
\* the waiting lines only, without the FIXME comment.
C6_FixmeOnFirstPrereqGroup ==
  [][ \A line \in InputLines :
        Dispatched(line) =>
          LET new == NewGroups("prereq")
              n == Len(current_group)
          IN /\ Matches("re_prereq", line) =>
                  /\ new # <<>>
                  /\ Len(new[1]) = n + 2
                  /\ SubSeq(new[1], 1, n) = current_group
                  /\ new[1][n + 1] = FixmeComment
                  /\ new[1][n + 2].tag = "PreReq"
                  /\ \A i \in 2..Len(new) : Len(new[i]) = 1 /\ new[i][1].tag = "PreReq"
             /\ Matches("re_requires_phase", line) =>
                  /\ new # <<>>
                  /\ Len(new[1]) = n + 1
                  /\ SubSeq(new[1], 1, n) = current_group
                  /\ \A i \in 1..Len(new) :
                       LET g == new[i] IN g[Len(g)].tag = "Requires" /\ g[Len(g)].sfx = line.sfx
                  /\ \A i \in 2..Len(new) : Len(new[i]) = 1
    ]_vars

\* a PreReq line of two tokens, then a Requires(pre) line, in one paragraph
C6_Witness ==
  /\ phase = "add" /\ raised = "" /\ Len(paragraph["prereq"]) = 3
  /\ paragraph["prereq"][1] = <<FixmeComment, L("PreReq", "", W("a"))>>
  /\ paragraph["prereq"][2] = <<L("PreReq", "", W("zlib"))>>
  /\ paragraph["prereq"][3] = <<L("Requires", "(pre)", W("a"))>>

(***************************************************************************)
(* C7.  Patch comment requirement: after every add, in the preamble and in *)
(* the sub-package variant, every group of the patch category has a        *)
(* comment before the patch line; when the line recorded before a Patch    *)
(* line is absent or is no comment, the comment next to the patch line is  *)
(* the injected warning.                                                   *)
(***************************************************************************)
PatchGroupsHaveComment(p) ==
  \A i \in 1..Len(p["patch"]) :
    LET g == p["patch"][i] IN
      /\ Len(g) >= 2
      /\ g[Len(g)].tag = "Patch"
      /\ \E k \in 1..(Len(g) - 1) : IsComment(g[k])

C7_PatchGroupsHaveComment ==
  [][ /\ PatchGroupsHaveComment(paragraph')
      /\ \A line \in InputLines :
           ( /\ Dispatched(line) /\ Matches("re_patch", line)
             /\ previous_line \in {NoLine, EmptyLine} \/ ~IsComment(previous_line) )
           => LET new == NewGroups("patch") IN
                /\ Len(new) = 1
                /\ new[1][Len(new[1]) - 1] = PatchMissingTag
    ]_vars

\* a sub-package whose Patch line comes right after the %package line
C7_Witness ==
  /\ variant = "package" /\ phase = "add" /\ raised = ""
  /\ input = <<PackageLine, L("Patch", "1", W("p"))>>
  /\ paragraph["patch"] = << <<PatchMissingTag, L("Patch", "1", W("p"))>> >>

(***************************************************************************)
(* C8.  As claimed: the key of a committed Source or Patch line has the    *)
(* numbering text of the input line, none when the input has none.         *)
(***************************************************************************)
C8_KeyKeepsNumbering ==
  [][ \A line \in InputLines :
        (Dispatched(line) /\ (Matches("re_source", line) \/ Matches("re_patch", line)))
        => LET new == NewGroups(IF Matches("re_source", line) THEN "source" ELSE "patch")
           IN /\ Len(new) = 1
              /\ new[1][Len(new[1])].tag = line.tag
              /\ new[1][Len(new[1])].sfx = line.sfx
    ]_vars

\* C8 as amended: a Source line keeps its numbering text, none included, and
\* an unnumbered one sorts as index 0; a Patch line keeps its number, and an
\* unnumbered Patch line is committed as Patch0.
C8_SourceKeepsPatchZero ==
  [][ \A line \in InputLines :
        Dispatched(line) =>
          /\ Matches("re_source", line) =>
               LET new == NewGroups("source") IN
                 /\ Len(new) = 1
                 /\ new[1][Len(new[1])] = L("Source", line.sfx, line.val)
                 /\ line.sfx = "" => SortHelperKey(new[1]) = IntKey(0)
          /\ Matches("re_patch", line) =>
               LET new == NewGroups("patch") IN
                 /\ Len(new) = 1
                 /\ new[1][Len(new[1])] =
                      L("Patch", IF line.sfx = "" THEN "0" ELSE line.sfx, line.val)
    ]_vars

\* an unnumbered Source line and an unnumbered Patch line were committed
C8_Witness ==
  /\ phase = "add" /\ raised = ""
  /\ \E i \in 1..Len(input) : input[i] = L("Source", "", W("s"))
  /\ \E i \in 1..Len(input) : input[i] = L("Patch", "", W("p"))
  /\ paragraph["source"] = << <<L("Source", "", W("s"))>> >>
  /\ Len(paragraph["patch"]) = 1
  /\ paragraph["patch"][1][Len(paragraph["patch"][1])] = L("Patch", "0", W("p"))

(***************************************************************************)
(* C9.  A closure emits the lines of the source category, and those of the *)
(* patch category, in ascending order of the number after the tag (none    *)
(* counts as 0), the lines of equal number in the order they were added.   *)
(***************************************************************************)
ResourceIndex(line) == IF line.sfx = "" THEN 0 ELSE IntOf(line.sfx)

SortedStable(held, out) ==
  /\ Len(out) = Len(held)
  /\ \A i, j \in 1..Len(out) : i < j => ResourceIndex(out[i]) <= ResourceIndex(out[j])
  /\ \A n \in {ResourceIndex(held[i]) : i \in 1..Len(held)} :
       LET Same(line) == ResourceIndex(line) = n IN
         SelectSeq(out, Same) = SelectSeq(held, Same)

C9_NumberedSortedStable ==
  [][ Closing =>
        \A c \in categories_with_sorted_keyword_tokens :
          LET Tagged(line) == line.tag = category_to_key[c]
              held == [i \in 1..Len(paragraph[c]) |->
                         paragraph[c][i][Len(paragraph[c][i])]]
          IN SortedStable(held, SelectSeq(Emitted, Tagged))
    ]_vars

\* Source1, Source0 and Source were added in this order; Source0 and Source
\* went before Source1 and kept their order
C9_Witness ==
  /\ phase = "done" /\ raised = "" /\ Len(input) = 3 /\ Len(lines) = 4
  /\ input = <<L("Source", "1", W("s")), L("Source", "0", W("s")), L("Source", "", W("s"))>>
  /\ lines = <<input[2], input[3], input[1], EmptyLine>>

(***************************************************************************)
(* C10.  Build-root single emission: the first build-root line of a        *)
(* paragraph commits one line whose value is the fixed path, whatever the  *)
(* input value; a later one commits nothing; a closure emits at most one   *)
(* build-root line, with that value.                                       *)
(***************************************************************************)
C10_BuildRootOnce ==
  [][ /\ \A line \in InputLines :
           (Dispatched(line) /\ Matches("re_buildroot", line)) =>
             IF paragraph["buildroot"] = <<>>
             THEN /\ Len(paragraph'["buildroot"]) = 1
                  /\ LET g == paragraph'["buildroot"][1] IN
                       g[Len(g)] = L("BuildRoot", "", W("%{_tmppath}/%{name}-%{version}-build"))
             ELSE \A c \in Categories : NewGroups(c) = <<>>
      /\ Closing =>
           LET IsBuildRoot(line) == line.tag = "BuildRoot"
               out == SelectSeq(Emitted, IsBuildRoot)
           IN /\ Len(out) <= 1
              /\ \A i \in 1..Len(out) : out[i].val = W("%{_tmppath}/%{name}-%{version}-build")
    ]_vars

\* two build-root lines were added to one paragraph and one was emitted
C10_Witness ==
  /\ variant = "preamble" /\ phase = "done" /\ raised = ""
  /\ Cardinality({i \in 1..Len(input) : input[i].tag = "BuildRoot"}) >= 2
  /\ \A i \in 1..Len(input) : ~IsDirective(input[i])
  /\ Cardinality({i \in 1..Len(lines) : lines[i].tag = "BuildRoot"}) = 1

(***************************************************************************)
(* C11.  Paragraph closure: a closure emits the groups of every category,  *)
(* category after category in the canonical order, and then the lines of   *)
(* the pending group as they are; afterwards every category and the        *)
(* pending group are empty, a closure right after it emits nothing, and    *)
(* every line held is emitted once.                                        *)
(***************************************************************************)
\* the pending group the closure finds: a directive is appended to it first
PendingAtClosure ==
  IF phase' # phase THEN current_group ELSE Append(current_group, input'[Len(input')])

\* output appends one empty line after the closure
Trailer == IF phase' # phase THEN <<EmptyLine>> ELSE <<>>

RECURSIVE GroupsLen(_)
\* how many lines the groups have together
GroupsLen(groups) ==
  IF groups = <<>> THEN 0 ELSE Len(Head(groups)) + GroupsLen(Tail(groups))

RECURSIVE Offset(_)
\* how many lines the categories before number i hold
Offset(i) ==
  IF i = 1 THEN 0 ELSE Offset(i - 1) + GroupsLen(paragraph[categories_order[i - 1]])

\* how many lines the categories hold together
HeldLen == Offset(Len(categories_order) + 1)

\* ls and ms have the same lines, each as many times
SameLines(ls, ms) ==
  /\ Len(ls) = Len(ms)
  /\ \A i \in 1..Len(ls) : Count(ls[i], ls) = Count(ls[i], ms)

C11_ClosureEmitsAllOnce ==
  [][ (Closing /\ raised' = "") =>
        /\ Len(Emitted) = HeldLen + Len(PendingAtClosure) + Len(Trailer)
        /\ \A i \in 1..Len(categories_order) :
             paragraph[categories_order[i]] # <<>> =>
               \A emitted \in {SubSeq(Emitted, Offset(i) + 1, Offset(i + 1))} :
                 \A held \in {Flatten(paragraph[categories_order[i]])} :
                   SameLines(emitted, held)
        /\ SubSeq(Emitted, HeldLen + 1, Len(Emitted)) = PendingAtClosure \o Trailer
        /\ \A c \in Categories : paragraph'[c] = <<>>
        /\ current_group' = <<>>
        /\ EndParagraph(Self').lines = lines'
    ]_vars

\* two categories out of order and a trailing comment: the categories come
\* out in order, the comment last, the empty line of output after it
C11_Witness ==
  /\ variant = "preamble" /\ phase = "done" /\ raised = ""
  /\ input = <<L("Release", "", W("1")), L("Name", "", W("n")), L("#", "", W("c"))>>
  /\ lines = <<input[2], L("Release", "", W("0")), input[3], EmptyLine>>
  /\ \A c \in Categories : paragraph[c] = <<>>
  /\ current_group = <<>>

(***************************************************************************)
(* C12.  Token-sorted categories: a closure emits the groups of each of    *)
(* the build-requires, requires, pre-requisite, recommends, suggests and   *)
(* supplements categories with the groups whose last line has pkgconfig(   *)
(* after all the others, each of the two classes in ascending order of the *)
(* last line, and the groups of equal last line in the order they were     *)
(* added.                                                                  *)
(***************************************************************************)
CategoryNumber(c) == CHOOSE i \in 1..Len(categories_order) : categories_order[i] = c

\* the lines a closing step emits for category c
Segment(c) == SubSeq(Emitted, Offset(CategoryNumber(c)) + 1, Offset(CategoryNumber(c) + 1))

RECURSIVE Regroup(_, _)
\* the groups of a run of emitted lines: a group is its comments and the
\* line they are attached to
Regroup(ls, attached) ==
  IF ls = <<>> THEN <<>>
  ELSE IF IsComment(Head(ls)) THEN Regroup(Tail(ls), Append(attached, Head(ls)))
  ELSE <<Append(attached, Head(ls))>> \o Regroup(Tail(ls), <<>>)

LastLine(g) == g[Len(g)]

PackagesSortedStable(held, out) ==
  /\ Len(out) = Len(held)
  /\ \A i, j \in 1..Len(out) :
       i < j =>
         /\ HasPkgconfig(LastLine(out[i])) => HasPkgconfig(LastLine(out[j]))
         /\ HasPkgconfig(LastLine(out[i])) = HasPkgconfig(LastLine(out[j]))
              => ~WordsLess(LineWords(LastLine(out[j])), LineWords(LastLine(out[i])))
  /\ \A k \in 1..Len(held) :
       LET Same(g) == LastLine(g) = LastLine(held[k]) IN
         SelectSeq(out, Same) = SelectSeq(held, Same)

C12_PackageTokensSorted ==
  [][ (Closing /\ raised' = "") =>
        \A c \in categories_with_sorted_package_tokens :
          paragraph[c] # <<>> =>
            \A out \in {Regroup(Segment(c), <<>>)} : PackagesSortedStable(paragraph[c], out)
    ]_vars

\* zlib and liby (two pkgconfig() names), then a: a and zlib come out first,
\* the two pkgconfig() lines after them
C12_Witness ==
  /\ variant = "preamble" /\ phase = "done" /\ raised = ""
  /\ input = <<L("Requires", "", <<T("zlib", ""), T("liby", ">=2")>>), L("Requires", "", W("a"))>>
  /\ Len(lines) = 5
  /\ lines[1] = L("Requires", "", W("a"))
  /\ lines[2] = L("Requires", "", W("zlib"))
  /\ lines[3].val[1].n = Pkgconfig("y1") /\ lines[4].val[1].n = Pkgconfig("y2")

(***************************************************************************)
(* C13.  Dependency expansion: of a dependency-list line, every token      *)
(* (with its qualifier spaced) whose package name is a key of              *)
(* pkgconfig_conversions is replaced by one pkgconfig() token per entry of *)
(* the table's list, in the order of the list, each with the qualifier of  *)
(* the token; a token whose name is no key stays as it is; one group is    *)
(* committed per resulting token, all under the key of the line.           *)
(***************************************************************************)
RECURSIVE ExpansionCount(_)
\* how many tokens the tokens become
ExpansionCount(tokens) ==
  IF tokens = <<>> THEN 0
  ELSE (IF Head(tokens).n \in DOMAIN pkgconfig_conversions
        THEN Len(pkgconfig_conversions[Head(tokens).n]) ELSE 1)
       + ExpansionCount(Tail(tokens))

C13_DependencyExpansion ==
  [][ \A line \in InputLines :
        (Dispatched(line) /\ line.tag \in {"Requires", "PreReq"}) =>
          LET c == IF line.tag = "PreReq" \/ line.sfx # "" THEN "prereq" ELSE "requires"
              new == NewGroups(c)
              tokens == [i \in 1..Len(line.val) |-> NormalizeToken(line.val[i])]
              Committed(token) ==
                \E k \in 1..Len(new) : LastLine(new[k]) = L(line.tag, line.sfx, <<token>>)
          IN /\ Len(new) = ExpansionCount(tokens)
             /\ \A k \in 1..Len(new) :
                  /\ LastLine(new[k]).tag = line.tag
                  /\ LastLine(new[k]).sfx = line.sfx
                  /\ Len(LastLine(new[k]).val) = 1
             /\ \A i \in 1..Len(tokens) :
                  LET replaced == PkgnameToPkgconfig(tokens[i]) IN
                    IF tokens[i].n \in DOMAIN pkgconfig_conversions
                    THEN LET names == pkgconfig_conversions[tokens[i].n] IN
                           /\ Len(replaced) = Len(names)
                           /\ \A j \in 1..Len(names) :
                                /\ replaced[j] = T("pkgconfig(" \o names[j] \o ")", tokens[i].v)
                                /\ Committed(replaced[j])
                    ELSE replaced = <<tokens[i]>> /\ Committed(tokens[i])
    ]_vars

\* zlib and liby >= 2: liby becomes pkgconfig(y2) and pkgconfig(y1), each
\* with >= 2, and three groups are committed under Requires
C13_Witness ==
  /\ phase = "add" /\ raised = ""
  /\ input = <<L("Requires", "", <<T("zlib", ""), T("liby", ">=2")>>)>>
  /\ PkgnameToPkgconfig(T("liby", ">= 2"))
       = <<T("pkgconfig(y2)", ">= 2"), T("pkgconfig(y1)", ">= 2")>>
  /\ paragraph["requires"] = << <<L("Requires", "", <<T("pkgconfig(y1)", ">= 2")>>)>>,
                                <<L("Requires", "", <<T("pkgconfig(y2)", ">= 2")>>)>>,
                                <<L("Requires", "", W("zlib"))>> >>

(***************************************************************************)
(* C14.  License normalization.  As claimed: the alias is substituted      *)
(* together with the expansion of the suffix, so FooORlater and (BarORsim) *)
(* is committed as Foo-1.0 or later and (Bar-2.0 or similar).              *)
(***************************************************************************)
\* a license value from its words
Words(ws) == [i \in 1..Len(ws) |-> T(ws[i], "")]

SuffixedLicense == L("License", "", Words(<<"FooORlater", "and", "(", "BarORsim", ")">>))

ClassificationRules ==
  {"re_if", "re_comment", "re_source", "re_patch", "re_prereq", "re_requires_phase",
   "re_provides", "re_obsoletes", "re_buildroot", "re_license", "re_release",
   "re_summary_localized"}
    \cup {category_to_re[c] : c \in DOMAIN category_to_re}
    \cup category_to_clean

Unclassified(line) ==
  ~IsBlank(line) /\ \A re \in ClassificationRules : ~Matches(re, line)

C15_UnclassifiedKeptInOrder ==
  [][ /\ \A line \in InputLines :
           (Dispatched(line) /\ Unclassified(line)) =>
             /\ raised' = ""
             /\ NewGroups("misc") = <<Append(current_group, line)>>
             /\ \A c \in Categories \ {"misc"} : paragraph'[c] = paragraph[c]
             /\ current_group' = <<>>
      /\ (Closing /\ raised' = "") => Segment("misc") = Flatten(paragraph["misc"])
    ]_vars

\* two unclassified lines around a Name line: Name comes out first, the two
\* lines after it in the order they came in
C15_Witness ==
  /\ variant = "preamble" /\ phase = "done" /\ raised = ""
  /\ input = <<L("ExclusiveArch", "", W("x")), L("Name", "", W("n")), L("%description", "", <<>>)>>
  /\ Unclassified(input[1]) /\ Unclassified(input[3])
  /\ lines = <<input[2], input[1], input[3], EmptyLine>>

(***************************************************************************)
(* C16.  Sub-package variant: the first line added to a sub-package block  *)
(* goes to the line sink as it is, into no category, and is the first line *)
(* of the output; every later line is handled as RpmPreamble.add handles   *)
(* it.                                                                     *)
(***************************************************************************)
C16_FirstLinePassedThrough ==
  [][ variant = "package" =>
        /\ input' # input =>
             LET line == input'[Len(input')] IN
               IF input = <<>>
               THEN /\ lines' = <<line>>
                    /\ paragraph' = paragraph
                    /\ current_group' = current_group
                    /\ raised' = ""
               ELSE Self' = RpmPreambleAdd(Self, line)
        /\ input # <<>> => lines # <<>> /\ lines'[1] = input[1]
    ]_vars

\* the %package line, then Release and Name: the %package line comes out
\* first and as it was, the two others in category order
C16_Witness ==
  /\ variant = "package" /\ phase = "done" /\ raised = ""
  /\ input = <<PackageLine, L("Release", "", W("1")), L("Name", "", W("n"))>>
  /\ lines = <<PackageLine, L("Name", "", W("n")), L("Release", "", W("0")), EmptyLine>>

(***************************************************************************)
(* C17.  Output finalization.  As claimed: the lines of the sink are       *)
(* written out once at every paragraph closure.                            *)
(***************************************************************************)
C17_FinalizedAtEveryClosure ==
  [][ (Closing /\ raised' = "") => finalized' = finalized + 1 ]_vars

\* C17 as amended: the sink is written out once by every call of output,
\* after the closure of the last paragraph, and by nothing else: a closure a
\* conditional directive causes does not write it out.  The output of a
\* whole preamble ends with one empty line, appended after the lines of the
\* last paragraph.
C17_FinalizedOncePerOutput ==
  [][ /\ finalized' = finalized + (IF phase' # phase /\ raised' = "" THEN 1 ELSE 0)
      /\ (phase' # phase /\ raised' = "") =>
           /\ lines' # <<>>
           /\ lines'[Len(lines')] = EmptyLine
           /\ Len(lines') > 1 => lines'[Len(lines') - 1] # EmptyLine
           /\ SubSeq(lines', 1, Len(lines) ) = lines
    ]_vars

\* a preamble of two paragraphs: two closures, written out once, one empty
\* line at the end
C17_Witness ==
  /\ variant = "preamble" /\ phase = "done" /\ raised = "" /\ finalized = 1
  /\ input = <<L("Name", "", W("n")), L("%if", "", W("0%{?suse_version}")),
               L("Requires", "", W("a"))>>
  /\ lines = <<input[1], input[2], input[3], EmptyLine>>

(***************************************************************************)
(* C18.  Comment conservation: every comment handed to add is, as long as  *)
(* no call fails, in exactly one place - waiting, in a group of a          *)
(* category, or emitted - and after output it is emitted, once for each    *)
(* time it was handed over; a discarded line (a deprecated tag, a repeated *)
(* build-root line) leaves the waiting comments waiting.                   *)
(***************************************************************************)
\* the comments among the lines the driver may feed
InputComments == {line \in InputLines : IsComment(line)}

\* the line is dropped by add in the present state
Discarded(line) ==
  \/ \E re \in category_to_clean : Matches(re, line)
  \/ Matches("re_buildroot", line) /\ paragraph["buildroot"] # <<>>

RECURSIVE CountHeld(_, _)
\* how many times x is held in the categories from number i on
CountHeld(x, i) ==
  IF i > Len(categories_order) THEN 0
  ELSE (IF paragraph[categories_order[i]] = <<>> THEN 0
        ELSE Count(x, Flatten(paragraph[categories_order[i]])))
       + CountHeld(x, i + 1)

Conserved ==
  \A c \in InputComments :
    Count(c, lines) + CountHeld(c, 1) + Count(c, current_group) = Count(c, input)

C18_CommentsConserved ==
  [][ raised' = "" =>
        /\ Conserved'
        /\ phase' = "done" => \A c \in InputComments : Count(c, lines') = Count(c, input')
        /\ \A line \in InputLines :
             (Dispatched(line) /\ Discarded(line)) =>
               current_group' = current_group /\ paragraph' = paragraph /\ lines' = lines
    ]_vars

\* a comment before a repeated build-root line: it comes out once, attached
\* to nothing, after the one build-root line
C18_Witness ==
  /\ variant = "preamble" /\ phase = "done" /\ raised = ""
  /\ input = <<L("BuildRoot", "", W("/var/tmp/build")), L("#", "", W("c")),
               L("BuildRoot", "", W("/var/tmp/build"))>>
  /\ lines = <<L("BuildRoot", "", BuildRootValue), L("#", "", W("c")), EmptyLine>>

(***************************************************************************)
(* C19.  Configuration errors are unreachable from input: every category   *)
(* add hands to an insertion is in categories_order, and has an entry in   *)
(* category_to_key when no key is handed with it, so no add raises the     *)
(* 'Unhandled category' exception or looks up a category the paragraph     *)
(* does not have.                                                          *)
(***************************************************************************)
\* the categories the branches of add name, and whether a key comes with them
InsertionTargets ==
  {[category |-> c, keyed |-> TRUE] :
     c \in {"source", "patch", "prereq", "provides_obsoletes", "summary_localized", "misc"}}
    \cup {[category |-> c, keyed |-> FALSE] :
            c \in {"prereq", "buildroot", "license", "release"} \cup DOMAIN category_to_re}

C19_NoConfigurationError ==
  [][ /\ \A t \in InsertionTargets :
           /\ t.category \in Categories
           /\ ~t.keyed => t.category \in DOMAIN category_to_key
      /\ \A line \in InputLines :
           Dispatched(line) =>
             /\ raised' \notin {"RpmException", "KeyError"}
             /\ \A c \in Categories :
                  NewGroups(c) # <<>> =>
                    \E t \in InsertionTargets :
                      /\ t.category = c
                      /\ ~t.keyed =>
                           LastLine(NewGroups(c)[1]).tag = category_to_key[c]
    ]_vars

\* lines were inserted into two categories without an entry in
\* category_to_key (one with its own key, one as a whole line) and into one
\* with an entry
C19_Witness ==
  /\ phase = "add" /\ raised = ""
  /\ input = <<L("Summary", "(de)", W("x")), L("Release", "", W("1")),
               L("ExclusiveArch", "", W("x"))>>
  /\ {"summary_localized", "misc"} \cap DOMAIN category_to_key = {}
  /\ paragraph["summary_localized"] = << <<input[1]>> >>
  /\ paragraph["release"] = << <<L("Release", "", W("0"))>> >>
  /\ paragraph["misc"] = << <<input[3]>> >>

=============================================================================
